---------------------------- MODULE Spec2Model ----------------------------
(***************************************************************************)
(* Model of main_ws/src/main.py: the trigger-activated camera/GPS logger.  *)
(* One process instance runs run_mission() from the button initialisation  *)
(* to restart_program(), which re-executes the script; the file system,    *)
(* the button, the wall clock and the serial line outlive the process.     *)
(*                                                                         *)
(* Time is the wall clock in milliseconds (the resolution of ts_str).      *)
(* Text is a tuple of one-character strings, so that strip() and           *)
(* startswith() are computed and not assumed.                              *)
(***************************************************************************)
EXTENDS Integers, Sequences, FiniteSets, TLC

\* ------------------------------------------------------------------ bounds
\* process instances (executions of the script) the model follows
MaxRuns == 1
\* inputs the environment delivers over all runs: frames of the camera, lines
\* of the GPS receiver, advances of the clock, KeyboardInterrupts
MaxEvents == 2
\* lines in the serial buffer of the drain-only specification
MaxBuf == 3
\* calls of get_storage_path() in the storage-only specification
MaxCalls == 3

\* ------------------------------------------------------- program constants
\* getOutputQueue(name="jpeg", maxSize=4, blocking=True)
QUEUE_MAX_SIZE == 4
\* time.sleep(1) after the stop was detected, in ms
STOP_SLEEP_MS == 1000
\* time.sleep(2) in the cleanup, in ms
COOLDOWN_MS == 2000
\* strftime("%Y-%m-%d_%H-%M-%S") has one-second resolution: ms per second
MS_PER_SECOND == 1000
\* Button(..., hold_time=1.0), in ms
HOLD_TIME_MS == 1000

PRIMARY_ROOT == "primary"
FALLBACK_ROOT == "fallback"
Roots == {PRIMARY_ROOT, FALLBACK_ROOT}

\* -------------------------------------------------------------------- text
\* characters python's str.strip() removes (space, \r, \n, \t ...)
Whitespace == {" ", "\r", "\n"}

\* "SystemTime,RawNMEA": the header of gps_log.txt (without its "\n")
HEADER == <<"S", "y", "s", "t", "e", "m", "T", "i", "m", "e", ",", "R", "a", "w", "N", "M", "E", "A">>

RECURSIVE LStrip(_)
LStrip(s) ==
    IF s # <<>> /\ Head(s) \in Whitespace THEN LStrip(Tail(s)) ELSE s

RECURSIVE RStrip(_)
RStrip(s) ==
    IF s # <<>> /\ s[Len(s)] \in Whitespace
    THEN RStrip(SubSeq(s, 1, Len(s) - 1))
    ELSE s

\* str.strip()
Strip(s) == RStrip(LStrip(s))

\* line.startswith("$")
StartsWithDollar(s) == s # <<>> /\ Head(s) = "$"

\* raw lines the receiver can send, each as readline() returns it (with its
\* line terminator): the three lines of "$GPGGA,1\r\nJUNK\r\n$GNGGA,2\r\n",
\* a sentence behind leading whitespace, an empty line, a "$" not in front
Line_GPGGA == <<"$", "G", "P", "G", "G", "A", ",", "1", "\r", "\n">>
Line_JUNK == <<"J", "U", "N", "K", "\r", "\n">>
Line_GNGGA == <<"$", "G", "N", "G", "G", "A", ",", "2", "\r", "\n">>
Line_Indented == <<" ", "$", "G", "P", "\r", "\n">>
Line_Empty == <<"\r", "\n">>
Line_Inner == <<"G", "$", "\n">>

SerialLines == {Line_GPGGA, Line_JUNK, Line_GNGGA, Line_Indented, Line_Empty, Line_Inner}

\* the lines the mission specification lets the receiver send
MissionLines == {Line_GPGGA, Line_JUNK, Line_Indented}

\* ------------------------------------------------------------- file system
\* a path: root directory, session stamp (seconds, -1 outside a session),
\* kind of entry, image stamp (ms, -1 for what is not an image)
Path(r, s, k, t) == [root |-> r, sess |-> s, kind |-> k, ts |-> t]
RootDir(r) == Path(r, -1, "root", -1)
ProbeFile(r) == Path(r, -1, "write_test", -1)
SessionDir(r, s) == Path(r, s, "session", -1)
ImagesDir(r, s) == Path(r, s, "images", -1)
ImageFile(r, s, t) == Path(r, s, "img", t)
GpsLogFile(r, s) == Path(r, s, "gps_log", -1)

\* a line of gps_log.txt: f"{ts_str},{line}\n"; the header has no ts field
LogLine(t, text) == [ts |-> t, text |-> text]
HeaderLine == LogLine(-1, HEADER)

\* strftime("%Y-%m-%d_%H-%M-%S"): the clock at one-second resolution
SessionStamp(t) == t \div MS_PER_SECOND
\* strftime("%Y-%m-%d_%H-%M-%S-%f")[:-3]: the clock at millisecond resolution
ImageStamp(t) == t

VARIABLES
    pc,           \* position of the process in run_mission()
    run,          \* which execution of the script this is (1, 2, ...)
    exit_code,    \* -1 while running; status of the process once it ended
    btn,          \* the Button: [pressed, since (clock at the press, -1 if released),
                  \* start (this press is the one wait_for_press() returned on)]
    ser,          \* serial handle: "none" | "open" | "closed"
    gps_file,     \* gps log handle: "none" | "open" | "closed"
    root_path,    \* result of get_storage_path(): "none" | a root
    session_dir,  \* session stamp of this run, -1 before it is created
    recording,    \* the loop flag
    frame_count,  \* frames dequeued and persisted in this run
    ts_str,       \* timestamp of the last persisted frame, -1 before
    queue,        \* frames waiting in qJpeg
    in_waiting,   \* raw lines waiting in the serial input buffer
    now,          \* wall clock, ms
    files,        \* paths that exist on disk
    gps_log,      \* content of each gps_log.txt on disk (path -> lines)
    probe_log,    \* file-system calls of the last get_storage_path(), in order
    gps_read_error, \* the last drain printed "GPS Read Error"
    events        \* inputs delivered so far (bounded by MaxEvents)

vars == <<pc, run, exit_code, btn, ser, gps_file, root_path, session_dir, recording, frame_count, ts_str, queue, in_waiting, now, files, gps_log, probe_log, gps_read_error, events>>

\* what a fresh execution of the script starts from: every python object is new
procVars == <<pc, exit_code, ser, gps_file, root_path, session_dir, recording, frame_count, ts_str, queue, probe_log, gps_read_error>>
\* what the environment owns
envVars == <<btn, in_waiting, now, files, gps_log, events>>


\* ---------------------------------------------------- get_storage_path()
\* one file-system call of get_storage_path() and whether it succeeded
Call(op, r, ok) == [op |-> op, root |-> r, ok |-> ok]

\* what the file system answers to the calls of one get_storage_path():
\* TRUE = the call succeeds, FALSE = it raises OSError
IoOutcomes == [mkdir : BOOLEAN, open : BOOLEAN, write : BOOLEAN, remove : BOOLEAN, fb_mkdir : BOOLEAN]

\* the except branch: ensure the fallback exists, return it; an OSError of
\* this makedirs is raised to the caller
StorageFallback(fs, calls, io) ==
    LET needMk == RootDir(FALLBACK_ROOT) \notin fs
    IN  IF needMk /\ ~io.fb_mkdir
        THEN [ret |-> "raise", files |-> fs, calls |-> Append(calls, Call("makedirs", FALLBACK_ROOT, FALSE))]
        ELSE [ret |-> FALLBACK_ROOT,
              files |-> fs \cup {RootDir(FALLBACK_ROOT)},
              calls |-> IF needMk THEN Append(calls, Call("makedirs", FALLBACK_ROOT, TRUE)) ELSE calls]

\* a get_storage_path() that trusts an existing primary directory
GetStoragePath_TrustExisting(fs, io) ==
    IF RootDir(PRIMARY_ROOT) \in fs
    THEN [ret |-> PRIMARY_ROOT, files |-> fs, calls |-> <<>>]
    ELSE StorageFallback(fs, <<>>, io)

\* get_storage_path(): the result, the file system after it, its calls
GetStoragePath(fs, io) ==
    LET needMk == RootDir(PRIMARY_ROOT) \notin fs
        mkOk == ~needMk \/ io.mkdir
        fs1 == IF needMk /\ io.mkdir THEN fs \cup {RootDir(PRIMARY_ROOT)} ELSE fs
        c1 == IF needMk THEN <<Call("makedirs", PRIMARY_ROOT, io.mkdir)>> ELSE <<>>
        \* open(test_file, 'w') creates the file; f.write / close may still fail
        opened == mkOk /\ io.open
        written == opened /\ io.write
        fs2 == IF opened THEN fs1 \cup {ProbeFile(PRIMARY_ROOT)} ELSE fs1
        c2 == IF mkOk THEN Append(c1, Call("write", PRIMARY_ROOT, written)) ELSE c1
        removed == written /\ io.remove
        fs3 == IF removed THEN fs2 \ {ProbeFile(PRIMARY_ROOT)} ELSE fs2
        c3 == IF written THEN Append(c2, Call("remove", PRIMARY_ROOT, removed)) ELSE c2
    IN  IF removed
        THEN [ret |-> PRIMARY_ROOT, files |-> fs3, calls |-> c3]
        ELSE StorageFallback(fs3, c3, io)

\* ------------------------------------------------------------------- Init
\* a process image right after exec: nothing opened, nothing resolved
FreshProcess ==
    /\ pc = "init_button"
    /\ exit_code = -1
    /\ ser = "none"
    /\ gps_file = "none"
    /\ root_path = "none"
    /\ session_dir = -1
    /\ recording = FALSE
    /\ frame_count = 0
    /\ ts_str = -1
    /\ queue = 0
    /\ probe_log = <<>>
    /\ gps_read_error = FALSE

Init ==
    /\ FreshProcess
    /\ run = 1
    /\ btn = [pressed |-> FALSE, since |-> -1, start |-> FALSE]
    /\ in_waiting = <<>>
    /\ now = 0
    /\ files \in {{}, {RootDir(PRIMARY_ROOT)}}
    /\ gps_log = <<>>
    /\ events = 0

\* the process ends with `code` (sys.exit, or an uncaught exception: python
\* prints the traceback and exits with status 1); nothing is closed by the code
Die(code) ==
    /\ pc' = "exited"
    /\ exit_code' = code

\* ------------------------------------------------- run_mission(): set-up
\* lines 84-89: Button(BUTTON_PIN, ...), or sys.exit(1)
InitButton ==
    /\ pc = "init_button"
    /\ run <= MaxRuns
    /\ \E ok \in BOOLEAN :
        IF ok THEN pc' = "init_gps" /\ UNCHANGED exit_code
        ELSE Die(1)
    /\ UNCHANGED <<run, ser, gps_file, root_path, session_dir, recording, frame_count, ts_str, queue, probe_log, gps_read_error>>
    /\ UNCHANGED envVars

\* lines 92-101: get_gps_port() and serial.Serial(); any failure is survived
InitGps ==
    /\ pc = "init_gps"
    /\ \E found \in BOOLEAN, opened \in BOOLEAN :
        ser' = IF found /\ opened THEN "open" ELSE "none"
    /\ pc' = "init_camera"
    /\ UNCHANGED <<run, exit_code, gps_file, root_path, session_dir, recording, frame_count, ts_str, queue, probe_log, gps_read_error>>
    /\ UNCHANGED envVars

\* lines 104-132: the pipeline description is built on the host (no device is
\* touched before dai.Device(pipeline), line 153), then the banner is printed
InitCamera ==
    /\ pc = "init_camera"
    /\ pc' = "wait_for_press"
    /\ UNCHANGED <<run, exit_code, ser, gps_file, root_path, session_dir, recording, frame_count, ts_str, queue, probe_log, gps_read_error>>
    /\ UNCHANGED envVars

\* a start that does not wait for the trigger
WaitForPress_NoWait ==
    /\ pc = "wait_for_press"
    /\ btn' = [btn EXCEPT !.start = btn.pressed]
    /\ pc' = "storage"
    /\ UNCHANGED <<run, exit_code, ser, gps_file, root_path, session_dir, recording, frame_count, ts_str, queue, probe_log, gps_read_error>>
    /\ UNCHANGED <<in_waiting, now, files, gps_log, events>>

\* lines 134-135: btn.wait_for_press() returns once the button is pressed
\* (at once when it is down already); the press it returned on is marked
WaitForPress ==
    /\ pc = "wait_for_press"
    /\ btn.pressed
    /\ btn' = [btn EXCEPT !.start = TRUE]
    /\ pc' = "storage"
    /\ UNCHANGED <<run, exit_code, ser, gps_file, root_path, session_dir, recording, frame_count, ts_str, queue, probe_log, gps_read_error>>
    /\ UNCHANGED <<in_waiting, now, files, gps_log, events>>

\* line 138: root_path = get_storage_path()
ResolveStorage ==
    /\ pc = "storage"
    /\ \E io \in IoOutcomes :
        LET r == GetStoragePath(files, io)
        IN  /\ files' = r.files
            /\ probe_log' = r.calls
            /\ IF r.ret = "raise"
               THEN Die(1) /\ UNCHANGED root_path
               ELSE pc' = "session" /\ root_path' = r.ret /\ UNCHANGED exit_code
    /\ UNCHANGED <<run, ser, gps_file, session_dir, recording, frame_count, ts_str, queue, gps_read_error>>
    /\ UNCHANGED <<btn, in_waiting, now, gps_log, events>>

\* a create_session_folders() that ignores its argument
CreateSessionFolders_Primary(base_path, t) ==
    {RootDir(PRIMARY_ROOT), SessionDir(PRIMARY_ROOT, SessionStamp(t)), ImagesDir(PRIMARY_ROOT, SessionStamp(t))}

\* create_session_folders(base_path): what os.makedirs(img_path) creates
\* (the missing parents too)
CreateSessionFolders(base_path, t) ==
    {RootDir(base_path), SessionDir(base_path, SessionStamp(t)), ImagesDir(base_path, SessionStamp(t))}

\* line 139: session_dir, img_dir = create_session_folders(root_path); an
\* OSError of os.makedirs is uncaught
CreateSession ==
    /\ pc = "session"
    /\ \E ok \in BOOLEAN :
        IF ok
        THEN /\ files' = files \cup CreateSessionFolders(root_path, now)
             /\ session_dir' = SessionStamp(now)
             /\ pc' = "gps_log"
             /\ UNCHANGED exit_code
        ELSE Die(1) /\ UNCHANGED <<files, session_dir>>
    /\ UNCHANGED <<run, ser, gps_file, root_path, recording, frame_count, ts_str, queue, probe_log, gps_read_error>>
    /\ UNCHANGED <<btn, in_waiting, now, gps_log, events>>

\* the log of this run's session
SessionLog == GpsLogFile(root_path, session_dir)

\* open(path, "a") of a file: created empty when absent, kept otherwise
OpenAppend(logs, path) ==
    IF path \in DOMAIN logs THEN logs ELSE (path :> <<>>) @@ logs

\* f.write(line) on a file opened in append mode
AppendLine(logs, path, line) == [logs EXCEPT ![path] = Append(@, line)]

\* lines 142-145: with a serial handle, gps_log.txt is opened for appending
\* (an OSError of open() is uncaught); without one, no log
OpenGpsLog ==
    /\ pc = "gps_log"
    /\ IF ser = "none"
       THEN /\ pc' = "device"
            /\ UNCHANGED <<gps_file, files, gps_log, exit_code>>
       ELSE \E ok \in BOOLEAN :
            IF ok
            THEN /\ gps_file' = "open"
                 /\ files' = files \cup {SessionLog}
                 /\ gps_log' = OpenAppend(gps_log, SessionLog)
                 /\ pc' = "gps_header"
                 /\ UNCHANGED exit_code
            ELSE Die(1) /\ UNCHANGED <<gps_file, files, gps_log>>
    /\ UNCHANGED <<run, ser, root_path, session_dir, recording, frame_count, ts_str, queue, probe_log, gps_read_error>>
    /\ UNCHANGED <<btn, in_waiting, now, events>>

\* lines 146-150: the header is written (19 characters into the empty buffer
\* of the file object: nothing to fail), the paths are printed
WriteGpsHeader ==
    /\ pc = "gps_header"
    /\ gps_log' = AppendLine(gps_log, SessionLog, HeaderLine)
    /\ pc' = "device"
    /\ UNCHANGED <<run, exit_code, ser, gps_file, root_path, session_dir, recording, frame_count, ts_str, queue, probe_log, gps_read_error>>
    /\ UNCHANGED <<btn, in_waiting, now, files, events>>

\* lines 153-157: dai.Device(pipeline) opens the camera (a RuntimeError when it
\* cannot is uncaught); the queue is created, recording = True, frame_count = 0
OpenDevice ==
    /\ pc = "device"
    /\ \E ok \in BOOLEAN :
        IF ok
        THEN /\ pc' = "loop"
             /\ recording' = TRUE
             /\ frame_count' = 0
             /\ queue' = 0
             /\ UNCHANGED exit_code
        ELSE Die(1) /\ UNCHANGED <<recording, frame_count, queue>>
    /\ UNCHANGED <<run, ser, gps_file, root_path, session_dir, ts_str, probe_log, gps_read_error>>
    /\ UNCHANGED envVars


\* ------------------------------------------- run_mission(): recording loop
\* positions inside the try block of lines 159-199
LoopPcs == {"loop", "frame", "gps", "button"}
\* positions inside the finally block of lines 204-214
CleanupPcs == {"close_gps_file", "close_serial", "cooldown", "restart"}
\* positions before the try block
SetupPcs == {"init_button", "init_gps", "init_camera", "wait_for_press", "storage", "session", "gps_log", "gps_header", "device"}

\* Button.is_pressed / Button.value == 1
IsPressed == btn.pressed
\* Button.is_held: pressed for at least hold_time without a release
IsHeld == btn.pressed /\ now - btn.since >= HOLD_TIME_MS

\* a loop that looks at the queue before it looks at the recording flag
LoopTop_IgnoreFlag ==
    /\ pc = "loop"
    /\ \/ queue > 0 /\ pc' = "frame"
       \/ queue = 0 /\ recording /\ pc' = "button"
       \/ queue = 0 /\ ~recording /\ pc' = "close_gps_file"
       \/ recording /\ pc' = "close_gps_file"
    /\ UNCHANGED <<run, exit_code, ser, gps_file, root_path, session_dir, recording, frame_count, ts_str, queue, probe_log, gps_read_error>>
    /\ UNCHANGED envVars

\* lines 160-166: the while test, the ignored read of the button, qJpeg.has()
\* (which does not block); a device error of has() leaves through the finally
LoopTop ==
    /\ pc = "loop"
    /\ \/ ~recording /\ pc' = "close_gps_file"
       \/ recording /\ queue > 0 /\ pc' = "frame"
       \/ recording /\ queue = 0 /\ pc' = "button"
       \/ recording /\ pc' = "close_gps_file"
    /\ UNCHANGED <<run, exit_code, ser, gps_file, root_path, session_dir, recording, frame_count, ts_str, queue, probe_log, gps_read_error>>
    /\ UNCHANGED envVars

\* a frame written under its stamp without the stamp being kept in ts_str
PersistFrame_NoStamp ==
    /\ pc = "frame"
    /\ queue' = queue - 1
    /\ ts_str' = ts_str
    /\ \E io \in {"ok", "open_fails", "write_fails"} :
        /\ files' = IF io = "open_fails" THEN files
                    ELSE files \cup {ImageFile(root_path, session_dir, ImageStamp(now))}
        /\ pc' = IF io = "ok" THEN "gps" ELSE "close_gps_file"
    /\ UNCHANGED <<run, exit_code, ser, gps_file, root_path, session_dir, recording, frame_count, probe_log, gps_read_error>>
    /\ UNCHANGED <<btn, in_waiting, now, gps_log, events>>

\* lines 167-177: the frame is dequeued, stamped and written to
\* img_<ts_str>.jpg; an OSError of open() or write() leaves through the finally
\* (open(filename, "wb") has created or truncated the file when write() fails)
PersistFrame ==
    /\ pc = "frame"
    /\ queue' = queue - 1
    /\ ts_str' = ImageStamp(now)
    /\ \E io \in {"ok", "open_fails", "write_fails"} :
        /\ files' = IF io = "open_fails" THEN files
                    ELSE files \cup {ImageFile(root_path, session_dir, ImageStamp(now))}
        /\ pc' = IF io = "ok" THEN "gps" ELSE "close_gps_file"
    /\ UNCHANGED <<run, exit_code, ser, gps_file, root_path, session_dir, recording, frame_count, probe_log, gps_read_error>>
    /\ UNCHANGED <<btn, in_waiting, now, gps_log, events>>

\* a drain that keeps every line
RECURSIVE DrainLoop_KeepAll(_, _, _)
DrainLoop_KeepAll(buf, lines, ts) ==
    IF buf = <<>> THEN lines
    ELSE DrainLoop_KeepAll(Tail(buf), Append(lines, LogLine(ts, Strip(Head(buf)))), ts)

\* a drain that keeps only the latest sentence, written over the last line
RECURSIVE DrainLoop_Overwrite(_, _, _)
DrainLoop_Overwrite(buf, lines, ts) ==
    IF buf = <<>> THEN lines
    ELSE LET line == Strip(Head(buf))
         IN  DrainLoop_Overwrite(Tail(buf), IF StartsWithDollar(line) THEN [lines EXCEPT ![Len(lines)] = LogLine(ts, line)] ELSE lines, ts)

\* lines 183-186: while ser.in_waiting > 0, read a line, strip it, and append
\* f"{ts_str},{line}" to the log when it starts with "$"
RECURSIVE DrainLoop(_, _, _)
DrainLoop(buf, lines, ts) ==
    IF buf = <<>> THEN lines
    ELSE LET line == Strip(Head(buf))
         IN  DrainLoop(Tail(buf), IF StartsWithDollar(line) THEN Append(lines, LogLine(ts, line)) ELSE lines, ts)

\* what one drain can do with the buffer: read and handle the first n lines,
\* then either find the buffer empty (n is all of it), or meet an exception of
\* ser.in_waiting / ser.readline() ("read": line n+1 stays buffered), or of
\* gps_file.write() ("write": line n+1 was read and is lost)
DrainOutcomes(buf) ==
    {[n |-> Len(buf), err |-> "none"]}
    \cup {[n |-> n, err |-> "read"] : n \in 0..Len(buf)}
    \cup {[n |-> n, err |-> "write"] : n \in {i \in 0..(Len(buf) - 1) : StartsWithDollar(Strip(buf[i + 1]))}}

\* a drain whose exceptions are not caught: they leave through the finally
DrainGps_ErrorEscapes ==
    /\ pc = "gps"
    /\ IF ser = "open"
       THEN \E o \in DrainOutcomes(in_waiting) :
            /\ gps_log' = [gps_log EXCEPT ![SessionLog] = DrainLoop(SubSeq(in_waiting, 1, o.n), @, ts_str)]
            /\ in_waiting' = SubSeq(in_waiting, (IF o.err = "write" THEN o.n + 2 ELSE o.n + 1), Len(in_waiting))
            /\ gps_read_error' = (o.err # "none")
            /\ frame_count' = IF o.err = "none" THEN frame_count + 1 ELSE frame_count
            /\ pc' = IF o.err = "none" THEN "button" ELSE "close_gps_file"
       ELSE /\ frame_count' = frame_count + 1
            /\ pc' = "button"
            /\ UNCHANGED <<gps_log, in_waiting, gps_read_error>>
    /\ UNCHANGED <<run, exit_code, ser, gps_file, root_path, session_dir, recording, ts_str, queue, probe_log>>
    /\ UNCHANGED <<btn, now, files, events>>

\* lines 179-193: with an open serial handle the buffer is drained; any
\* exception ends the drain and is printed ("GPS Read Error"); then the status
\* line and frame_count += 1
DrainGps ==
    /\ pc = "gps"
    /\ IF ser = "open"
       THEN \E o \in DrainOutcomes(in_waiting) :
            /\ gps_log' = [gps_log EXCEPT ![SessionLog] = DrainLoop(SubSeq(in_waiting, 1, o.n), @, ts_str)]
            /\ in_waiting' = SubSeq(in_waiting, (IF o.err = "write" THEN o.n + 2 ELSE o.n + 1), Len(in_waiting))
            /\ gps_read_error' = (o.err # "none")
       ELSE UNCHANGED <<gps_log, in_waiting, gps_read_error>>
    /\ frame_count' = frame_count + 1
    /\ pc' = "button"
    /\ UNCHANGED <<run, exit_code, ser, gps_file, root_path, session_dir, recording, ts_str, queue, probe_log>>
    /\ UNCHANGED <<btn, now, files, events>>

\* lines 195-196: btn.value == 1 and btn.is_pressed
StopRequested == IsPressed

\* lines 195-199: a pressed button ends the recording, then time.sleep(1)
CheckButton ==
    /\ pc = "button"
    /\ IF StopRequested
       THEN recording' = FALSE /\ now' = now + STOP_SLEEP_MS
       ELSE UNCHANGED <<recording, now>>
    /\ pc' = "loop"
    /\ UNCHANGED <<run, exit_code, ser, gps_file, root_path, session_dir, frame_count, ts_str, queue, probe_log, gps_read_error>>
    /\ UNCHANGED <<btn, in_waiting, files, gps_log, events>>

\* ------------------------------------------------ run_mission(): finally
\* lines 206-207: if gps_file: gps_file.close(). close() first flushes what
\* write() left in the buffer of the file object; when that flush fails (the
\* drive is gone or full) the descriptor is released and the OSError is raised
\* out of the finally block: nothing catches it and the process ends
CloseGpsFile ==
    /\ pc = "close_gps_file"
    /\ gps_file' = IF gps_file = "none" THEN "none" ELSE "closed"
    /\ \E flushed \in BOOLEAN :
        IF flushed \/ gps_file = "none"
        THEN pc' = "close_serial" /\ UNCHANGED exit_code
        ELSE Die(1)
    /\ UNCHANGED <<run, ser, root_path, session_dir, recording, frame_count, ts_str, queue, probe_log, gps_read_error>>
    /\ UNCHANGED envVars

\* lines 208-209: if ser: ser.close(); the input buffer goes with the port
CloseSerial ==
    /\ pc = "close_serial"
    /\ ser' = IF ser = "none" THEN "none" ELSE "closed"
    /\ in_waiting' = <<>>
    /\ pc' = "cooldown"
    /\ UNCHANGED <<run, exit_code, gps_file, root_path, session_dir, recording, frame_count, ts_str, queue, probe_log, gps_read_error>>
    /\ UNCHANGED <<btn, now, files, gps_log, events>>

\* lines 210-211: print("Session Saved."), time.sleep(2)
Cooldown ==
    /\ pc = "cooldown"
    /\ now' = now + COOLDOWN_MS
    /\ pc' = "restart"
    /\ UNCHANGED <<run, exit_code, ser, gps_file, root_path, session_dir, recording, frame_count, ts_str, queue, probe_log, gps_read_error>>
    /\ UNCHANGED <<btn, in_waiting, files, gps_log, events>>

\* lines 63-67 and 214: os.execl replaces the process image by a fresh
\* execution of the script
RestartProgram ==
    /\ pc = "restart"
    /\ run' = run + 1
    /\ pc' = "init_button"
    /\ exit_code' = -1
    /\ ser' = "none"
    /\ gps_file' = "none"
    /\ root_path' = "none"
    /\ session_dir' = -1
    /\ recording' = FALSE
    /\ frame_count' = 0
    /\ ts_str' = -1
    /\ queue' = 0
    /\ probe_log' = <<>>
    /\ gps_read_error' = FALSE
    /\ UNCHANGED envVars

\* ------------------------------------------------------------ environment
\* a process the model follows is running
Alive == pc # "exited" /\ run <= MaxRuns

\* The process reads the button at wait_for_press and at the stop test, the
\* queue at the top of the loop, the clock when it stamps a frame and the
\* serial buffer in the drain. An input that arrives while the process is at
\* another position is seen only at the next of these reads, so it is
\* delivered while the process waits for the trigger, is at the top of the
\* loop or is at the stop test.
Observing == pc \in {"wait_for_press", "loop", "button"}

\* the button goes down
Press ==
    /\ Observing
    /\ ~btn.pressed
    /\ btn' = [pressed |-> TRUE, since |-> now, start |-> FALSE]
    /\ UNCHANGED <<pc, run, exit_code, ser, gps_file, root_path, session_dir, recording, frame_count, ts_str, queue, probe_log, gps_read_error>>
    /\ UNCHANGED <<in_waiting, now, files, gps_log, events>>

\* the button goes up
Release ==
    /\ Observing
    /\ btn.pressed
    /\ btn' = [pressed |-> FALSE, since |-> -1, start |-> FALSE]
    /\ UNCHANGED <<pc, run, exit_code, ser, gps_file, root_path, session_dir, recording, frame_count, ts_str, queue, probe_log, gps_read_error>>
    /\ UNCHANGED <<in_waiting, now, files, gps_log, events>>

\* the wall clock advances by a millisecond, or by the hold time
Tick ==
    /\ Observing
    /\ events < MaxEvents
    /\ events' = events + 1
    /\ \E d \in {1, HOLD_TIME_MS} : now' = now + d
    /\ UNCHANGED <<pc, run, exit_code, ser, gps_file, root_path, session_dir, recording, frame_count, ts_str, queue, probe_log, gps_read_error>>
    /\ UNCHANGED <<btn, in_waiting, files, gps_log>>

\* the camera pipeline puts a frame into qJpeg (it blocks when the queue is full)
FrameArrives ==
    /\ pc \in {"loop", "button"}
    /\ queue < QUEUE_MAX_SIZE
    /\ events < MaxEvents
    /\ events' = events + 1
    /\ queue' = queue + 1
    /\ UNCHANGED <<pc, run, exit_code, ser, gps_file, root_path, session_dir, recording, frame_count, ts_str, probe_log, gps_read_error>>
    /\ UNCHANGED <<btn, in_waiting, now, files, gps_log>>

\* the receiver sends a line into the open port
SerialArrives ==
    /\ Observing
    /\ ser = "open"
    /\ events < MaxEvents
    /\ events' = events + 1
    /\ \E line \in MissionLines : in_waiting' = Append(in_waiting, line)
    /\ UNCHANGED <<pc, run, exit_code, ser, gps_file, root_path, session_dir, recording, frame_count, ts_str, queue, probe_log, gps_read_error>>
    /\ UNCHANGED <<btn, now, files, gps_log>>

\* lines 159, 201-204: a KeyboardInterrupt raised inside the try block is
\* caught and the finally block runs; raised anywhere else it is uncaught
InterruptTarget(p) == IF p \in LoopPcs THEN "close_gps_file" ELSE "exited"

\* SIGINT is delivered to the process (python exits with 130 when nothing
\* catches the KeyboardInterrupt)
KeyboardInterrupt ==
    /\ Alive
    /\ events < MaxEvents
    /\ events' = events + 1
    /\ pc' = InterruptTarget(pc)
    /\ exit_code' = IF InterruptTarget(pc) = "exited" THEN 130 ELSE exit_code
    /\ UNCHANGED <<run, ser, gps_file, root_path, session_dir, recording, frame_count, ts_str, queue, probe_log, gps_read_error>>
    /\ UNCHANGED <<btn, in_waiting, now, files, gps_log>>

Next ==
    \/ InitButton
    \/ InitGps
    \/ InitCamera
    \/ WaitForPress
    \/ ResolveStorage
    \/ CreateSession
    \/ OpenGpsLog
    \/ WriteGpsHeader
    \/ OpenDevice
    \/ LoopTop
    \/ PersistFrame
    \/ DrainGps
    \/ CheckButton
    \/ CloseGpsFile
    \/ CloseSerial
    \/ Cooldown
    \/ RestartProgram
    \/ Press
    \/ Release
    \/ Tick
    \/ FrameArrives
    \/ SerialArrives
    \/ KeyboardInterrupt

Spec == Init /\ [][Next]_vars


\* ------------------------------------------------ the drain on its own
\* a bounded sequence over S
SeqsUpTo(S, n) == UNION {[1..k -> S] : k \in 0..n}

\* a mission on the healthy primary root with an open GPS port, right after
\* its first frame was persisted at clock 0, with any buffer of raw lines
InitDrain ==
    /\ pc = "gps"
    /\ run = 1
    /\ exit_code = -1
    /\ btn = [pressed |-> FALSE, since |-> -1, start |-> FALSE]
    /\ ser = "open"
    /\ gps_file = "open"
    /\ root_path = PRIMARY_ROOT
    /\ session_dir = 0
    /\ recording = TRUE
    /\ frame_count = 0
    /\ ts_str = 0
    /\ queue = 0
    /\ in_waiting \in SeqsUpTo(SerialLines, MaxBuf)
    /\ now = 0
    /\ files = CreateSessionFolders(PRIMARY_ROOT, 0) \cup {GpsLogFile(PRIMARY_ROOT, 0), ImageFile(PRIMARY_ROOT, 0, 0)}
    /\ gps_log = (GpsLogFile(PRIMARY_ROOT, 0) :> <<HeaderLine>>)
    /\ probe_log = <<Call("write", PRIMARY_ROOT, TRUE), Call("remove", PRIMARY_ROOT, TRUE)>>
    /\ gps_read_error = FALSE
    /\ events = 0

SpecDrain == InitDrain /\ [][DrainGps]_vars


\* ------------------------------------------- the recording loop on its own
\* a mission on the healthy primary root with an open GPS port, at the top of
\* the recording loop: either right after the camera was opened, or after an
\* iteration that wrote the frame stamped 0 and found the button up, the clock
\* being at 0 or a millisecond later
InitLoop ==
    /\ pc = "loop"
    /\ run = 1
    /\ exit_code = -1
    /\ btn = [pressed |-> FALSE, since |-> -1, start |-> FALSE]
    /\ ser = "open"
    /\ gps_file = "open"
    /\ root_path = PRIMARY_ROOT
    /\ session_dir = 0
    /\ recording = TRUE
    /\ queue = 0
    /\ in_waiting = <<>>
    /\ gps_log = (GpsLogFile(PRIMARY_ROOT, 0) :> <<HeaderLine>>)
    /\ probe_log = <<Call("write", PRIMARY_ROOT, TRUE), Call("remove", PRIMARY_ROOT, TRUE)>>
    /\ gps_read_error = FALSE
    /\ events = 0
    /\ now \in {0, 1}
    /\ \/ /\ frame_count = 0
          /\ ts_str = -1
          /\ files = CreateSessionFolders(PRIMARY_ROOT, 0) \cup {GpsLogFile(PRIMARY_ROOT, 0)}
       \/ /\ frame_count = 1
          /\ ts_str = 0
          /\ files = CreateSessionFolders(PRIMARY_ROOT, 0) \cup {GpsLogFile(PRIMARY_ROOT, 0), ImageFile(PRIMARY_ROOT, 0, 0)}

NextLoop ==
    \/ LoopTop
    \/ PersistFrame
    \/ DrainGps
    \/ CheckButton
    \/ CloseGpsFile
    \/ CloseSerial
    \/ Cooldown
    \/ RestartProgram
    \/ Press
    \/ Release
    \/ Tick
    \/ FrameArrives
    \/ SerialArrives
    \/ KeyboardInterrupt

SpecLoop == InitLoop /\ [][NextLoop]_vars


\* ------------------------------------------ get_storage_path() on its own
\* the trigger was received and get_storage_path() is about to be called, on a
\* disk without any root, with one of the roots, or with the session of an
\* earlier mission in one of them
InitStorage ==
    /\ pc = "storage"
    /\ run = 1
    /\ exit_code = -1
    /\ btn = [pressed |-> TRUE, since |-> 0, start |-> TRUE]
    /\ ser = "none"
    /\ gps_file = "none"
    /\ root_path = "none"
    /\ session_dir = -1
    /\ recording = FALSE
    /\ frame_count = 0
    /\ ts_str = -1
    /\ queue = 0
    /\ in_waiting = <<>>
    /\ now = 0
    /\ files \in {{}, {RootDir(PRIMARY_ROOT)}, {RootDir(FALLBACK_ROOT)},
                  CreateSessionFolders(PRIMARY_ROOT, 0) \cup {ImageFile(PRIMARY_ROOT, 0, 0)},
                  CreateSessionFolders(FALLBACK_ROOT, 0) \cup {ImageFile(FALLBACK_ROOT, 0, 0)}}
    /\ gps_log = <<>>
    /\ probe_log = <<>>
    /\ gps_read_error = FALSE
    /\ events = 0

\* line 138, repeated: one more call of get_storage_path(), with any outcome
\* of its file-system calls; an OSError it raises leaves no root
ResolveAgain ==
    /\ pc = "storage"
    /\ events < MaxCalls
    /\ events' = events + 1
    /\ \E io \in IoOutcomes :
        LET r == GetStoragePath(files, io)
        IN  /\ files' = r.files
            /\ probe_log' = r.calls
            /\ root_path' = IF r.ret = "raise" THEN "none" ELSE r.ret
    /\ UNCHANGED <<pc, run, exit_code, ser, gps_file, session_dir, recording, frame_count, ts_str, queue, gps_read_error>>
    /\ UNCHANGED <<btn, in_waiting, now, gps_log>>

SpecStorage == InitStorage /\ [][ResolveAgain]_vars


\* =================================================================== claims
\* the calls get_storage_path() made
CallsOf(calls) == {calls[i] : i \in DOMAIN calls}
\* the image files of this run's session
SessionImages == {f \in files : f.kind = "img" /\ f.sess = session_dir}

\* C1 (as claimed): at the stop test of the recording loop, the recording is
\* ended if and only if the button has been held for at least the hold
\* threshold; a press held for less changes nothing.
C1_StopOnlyOnHold ==
    [][(pc = "button" /\ pc' = "loop") => (~recording' <=> IsHeld)]_vars

\* C2 (as claimed): whenever get_storage_path() has returned a root, a write
\* in that very root succeeded during the call, the fallback root included.
C2_ReturnedRootWasWritten ==
    root_path \in Roots => Call("write", root_path, TRUE) \in CallsOf(probe_log)

\* C2 (amended): the primary root is returned only after the probe was
\* written and deleted in it during the call; the fallback root is returned
\* only after a call on the primary root failed, and no write is ever made in
\* the fallback root (its existence alone is ensured).
C2_PrimaryProbedFallbackTrusted ==
    /\ root_path = PRIMARY_ROOT =>
        /\ Call("write", PRIMARY_ROOT, TRUE) \in CallsOf(probe_log)
        /\ Call("remove", PRIMARY_ROOT, TRUE) \in CallsOf(probe_log)
    /\ root_path = FALLBACK_ROOT =>
        /\ \E c \in CallsOf(probe_log) : c.root = PRIMARY_ROOT /\ ~c.ok
        /\ RootDir(FALLBACK_ROOT) \in files
    /\ \A c \in CallsOf(probe_log) : c.root = FALLBACK_ROOT => c.op = "makedirs"

\* C2 witness: the fallback root was returned after the probe write failed
C2_FallbackReturned ==
    /\ pc = "session"
    /\ root_path = FALLBACK_ROOT
    /\ Call("write", PRIMARY_ROOT, FALSE) \in CallsOf(probe_log)

\* C3 (as claimed): once get_storage_path() has returned, no probe file is
\* left in the primary root nor in the fallback root.
C3_NoProbeFileLeft ==
    root_path \in Roots => \A r \in Roots : ProbeFile(r) \notin files

\* C4 (as claimed): when the process has ended, or is about to be re-executed,
\* neither the GPS log file nor the serial handle is still open.
C4_ClosedBeforeExit ==
    pc \in {"exited", "restart"} => (gps_file # "open" /\ ser # "open")


\* the state of the acquisition state machine the process is in ("DEAD" once
\* the process has ended without a restart)
Phase(p) ==
    CASE p \in {"init_button", "init_gps", "init_camera"} -> "IDLE"
      [] p = "wait_for_press" -> "ARMED"
      [] p \in {"storage", "session", "gps_log", "gps_header", "device"} \cup LoopPcs -> "RECORDING"
      [] p \in {"close_gps_file", "close_serial", "cooldown"} -> "STOPPING"
      [] p = "restart" -> "RESTARTING"
      [] OTHER -> "DEAD"

\* a step of the finally block is the next statement of it, or the death of
\* the process by a KeyboardInterrupt delivered during the finally block
CleanupStep(from, to, done) ==
    (pc = from /\ pc' # from) =>
        \/ pc' = to /\ done
        \/ pc' = "exited" /\ exit_code' = 130

\* C5 (as claimed): the recording loop is left in one way only, into the
\* finally block, whether by the stop, by a KeyboardInterrupt or by any other
\* exception, and never by the end of the process; and after an exception left
\* the loop (recording is still set) the finally block closes the GPS log,
\* closes the serial handle, waits the cooldown and re-executes the script (a
\* further KeyboardInterrupt delivered during the block itself set aside).
C5_ExceptionsTakeTheCleanupPath ==
    [][/\ pc \in LoopPcs => pc' \in LoopPcs \cup {"close_gps_file"}
       /\ recording =>
            /\ CleanupStep("close_gps_file", "close_serial", gps_file' # "open")
            /\ CleanupStep("close_serial", "cooldown", ser' # "open" /\ gps_file' # "open")
            /\ CleanupStep("cooldown", "restart", now' = now + COOLDOWN_MS)
            /\ CleanupStep("restart", "init_button", run' = run + 1 /\ ser' = "none" /\ gps_file' = "none")]_vars

\* C6 (as claimed): when the trigger input or the camera fails to initialise,
\* the process ends with a non-zero status before any session logic has run:
\* no storage probe, no session directory, no GPS log.
C6_InitFailureBeforeSession ==
    [][(pc \in {"init_button", "device"} /\ pc' = "exited" /\ exit_code' = 1) =>
        /\ root_path = "none"
        /\ probe_log = <<>>
        /\ session_dir = -1
        /\ gps_file = "none"]_vars

\* C7: every artifact of this run's session (session directory, images
\* directory, image files, gps_log.txt) lies under the root that
\* get_storage_path() returned, a session exists only once a root was
\* returned, and a primary root that failed its probe is never that root.
C7_ArtifactsUnderReturnedRoot ==
    /\ \A f \in files :
        (f.kind \in {"session", "images", "img", "gps_log"} /\ f.sess = session_dir) =>
            (root_path \in Roots /\ f.root = root_path)
    /\ session_dir # -1 => (root_path \in Roots /\ SessionDir(root_path, session_dir) \in files)
    /\ (\E c \in CallsOf(probe_log) : c.root = PRIMARY_ROOT /\ ~c.ok) => root_path # PRIMARY_ROOT

\* C7 witness: the probe failed and the session, an image and the GPS log of
\* the mission are under the fallback root
C7_MissionOnFallback ==
    /\ root_path = FALLBACK_ROOT
    /\ \E c \in CallsOf(probe_log) : c.root = PRIMARY_ROOT /\ ~c.ok
    /\ ImageFile(FALLBACK_ROOT, session_dir, ts_str) \in files
    /\ GpsLogFile(FALLBACK_ROOT, session_dir) \in files

\* C8 (as claimed): after a normal stop of a mission on the healthy primary
\* root without GPS, the session holds exactly as many image files as frames
\* were dequeued, and no gps_log.txt.
C8_OneImagePerFrame ==
    (pc \in CleanupPcs /\ ~recording /\ ser = "none" /\ root_path = PRIMARY_ROOT) =>
        /\ Cardinality(SessionImages) = frame_count
        /\ GpsLogFile(root_path, session_dir) \notin files

SentenceAfterStrip(raw) == StartsWithDollar(Strip(raw))
\* the log lines that stand for the raw lines `kept`, stamped ts
Logged(kept, ts) == [i \in 1..Len(kept) |-> LogLine(ts, Strip(kept[i]))]
\* a drain step that printed no "GPS Read Error"
CleanDrainStep == pc = "gps" /\ pc' = "button" /\ ser = "open" /\ ~gps_read_error'

\* C10 (as claimed): a drain consumes every buffered line and appends, in
\* arrival order and once each, exactly the lines that begin with "$", and
\* nothing for any other line.
C10_DollarLinesLogged ==
    [][CleanDrainStep =>
        /\ in_waiting' = <<>>
        /\ gps_log'[SessionLog] = gps_log[SessionLog] \o Logged(SelectSeq(in_waiting, StartsWithDollar), ts_str)]_vars

\* C10 (amended): a drain that meets no error consumes every buffered line
\* and appends, in arrival order and once each, the stripped text of exactly
\* the lines that begin with "$" after the whitespace around them is stripped
\* (so also of a line whose "$" follows leading whitespace), stamped with
\* ts_str, and nothing for any other line; a drain cut short by an error has
\* done so for the lines it consumed before the error.
C10_StrippedDollarLinesLogged ==
    [][(pc = "gps" /\ pc' = "button" /\ ser = "open") =>
        /\ ~gps_read_error' => in_waiting' = <<>>
        /\ \E k \in 0..Len(in_waiting) :
            /\ gps_log'[SessionLog] = gps_log[SessionLog] \o Logged(SelectSeq(SubSeq(in_waiting, 1, k), SentenceAfterStrip), ts_str)
            /\ \E j \in k..Len(in_waiting) : in_waiting' = SubSeq(in_waiting, j + 1, Len(in_waiting))
            /\ ~gps_read_error' => k = Len(in_waiting)]_vars

\* C10 witness: a drain without error has logged "$GPGGA,1", the sentence of
\* the indented line and "$GNGGA,2", in this order, after the header
C10_ThreeSentencesLogged ==
    /\ pc = "button"
    /\ ~gps_read_error
    /\ in_waiting = <<>>
    /\ gps_log[SessionLog] = <<HeaderLine, LogLine(ts_str, Strip(Line_GPGGA)), LogLine(ts_str, Strip(Line_Indented)), LogLine(ts_str, Strip(Line_GNGGA))>>


\* a step of the process itself: no input of the environment is delivered
ProcessStep == events' = events /\ btn' = btn /\ pc' # pc

\* C11: an error of a GPS read or write during a drain never leaves the
\* recording loop: the drain step always goes on to the stop test with the
\* recording flag set and the frame counted, whatever happened to the serial
\* port; and in a loop whose last drain met an error, the next frame is still
\* dequeued and written to the session, and the stop test still ends the
\* recording exactly when the button is down.
C11_GpsErrorNeverStopsTheLoop ==
    [][ProcessStep =>
        /\ pc = "gps" => (pc' = "button" /\ recording' /\ frame_count' = frame_count + 1 /\ files' = files)
        /\ (pc = "loop" /\ gps_read_error /\ recording /\ queue > 0 /\ pc' \in LoopPcs) => pc' = "frame"
        /\ (pc = "frame" /\ gps_read_error /\ pc' = "gps") =>
            (queue' = queue - 1 /\ ImageFile(root_path, session_dir, ts_str') \in files')
        /\ (pc = "button" /\ gps_read_error) => (pc' = "loop" /\ recording' = ~IsPressed)]_vars

\* C11 witness: after a drain that met an error, a further frame was dequeued
\* and written, and the loop is at its next drain
C11_FramePersistedAfterError ==
    /\ pc = "gps"
    /\ gps_read_error
    /\ recording
    /\ frame_count = 1
    /\ ImageFile(root_path, session_dir, ts_str) \in files

\* the lines a step appended to the log of the session
AppendedLines == SubSeq(gps_log'[SessionLog], Len(gps_log[SessionLog]) + 1, Len(gps_log'[SessionLog]))

\* C12: the drain is entered only by the step that wrote a frame of the
\* session to disk, under the stamp kept in ts_str; once the recording loop
\* runs, the GPS log changes only in the drain, by appended lines that all
\* carry ts_str, the stamp in the file name of that last written frame; so
\* every data line of the log carries the stamp of an image of the session.
C12_LinesCarryLastFrameStamp ==
    [][/\ (pc # "gps" /\ pc' = "gps") =>
            /\ pc = "frame"
            /\ ts_str' # -1
            /\ files' = files \cup {ImageFile(root_path, session_dir, ts_str')}
       /\ (gps_log' # gps_log /\ pc \notin SetupPcs) =>
            /\ pc = "gps"
            /\ ImageFile(root_path, session_dir, ts_str) \in files
            /\ gps_log'[SessionLog] = gps_log[SessionLog] \o AppendedLines
            /\ \A i \in DOMAIN AppendedLines : AppendedLines[i].ts = ts_str
            /\ \A i \in 2..Len(gps_log'[SessionLog]) :
                ImageFile(root_path, session_dir, gps_log'[SessionLog][i].ts) \in files']_vars

\* C12 witness: the session holds the frames stamped 0 and 1, and the sentence
\* drained after the second was logged with the stamp 1
C12_LineStampedWithFrame ==
    /\ pc = "button"
    /\ gps_file = "open"
    /\ ts_str = 1
    /\ gps_log[SessionLog] = <<HeaderLine, LogLine(1, Strip(Line_GPGGA))>>
    /\ SessionImages = {ImageFile(root_path, session_dir, 0), ImageFile(root_path, session_dir, 1)}

\* the gps_log.txt files on disk
LogsOnDisk == {f \in files : f.kind = "gps_log"}
\* the header is the first line of `log` and no other line of it
HeaderOnceOnTop(log) ==
    /\ log # <<>>
    /\ log[1] = HeaderLine
    /\ \A i \in 2..Len(log) : log[i] # HeaderLine /\ log[i].ts # -1
\* every log on disk stays on disk and keeps its lines, in their order, in
\* front of what the step appended
AppendOnly ==
    \A f \in LogsOnDisk :
        /\ f \in files'
        /\ Len(gps_log'[f]) >= Len(gps_log[f])
        /\ SubSeq(gps_log'[f], 1, Len(gps_log[f])) = gps_log[f]

C14_EveryIterationDequeues ==
    [][/\ (pc = "loop" /\ recording /\ pc' \in LoopPcs \ {"loop"}) => pc' = "frame"
       /\ (pc # "button" /\ pc' = "button") => pc = "gps"]_vars

\* C16 (as claimed): while the camera has delivered no frame (none dequeued so
\* far, none in the queue), a stop request is not acted on: the stop test does
\* not end the recording.
C16_NoStopWithoutFrame ==
    [][(pc = "button" /\ recording /\ frame_count = 0 /\ queue = 0) => recording']_vars

\* C17 (as claimed): once the finally block is entered its steps are taken in
\* order, each one followed by the next and the last by the fresh execution
\* of the script, whatever happens: the GPS log is closed, then the serial
\* handle, then the cooldown elapses, then the process is restarted; nothing is
\* written to the GPS log during the block and nothing is read from the serial
\* port once it is closed.
C17_CleanupInOrderThenRestart ==
    [][/\ (pc = "close_gps_file" /\ pc' # pc) => (pc' = "close_serial" /\ gps_file' # "open")
       /\ (pc = "close_serial" /\ pc' # pc) => (pc' = "cooldown" /\ ser' # "open")
       /\ (pc = "cooldown" /\ pc' # pc) => (pc' = "restart" /\ now' = now + COOLDOWN_MS)
       /\ (pc = "restart" /\ pc' # pc) => (pc' = "init_button" /\ run' = run + 1)
       /\ pc \in CleanupPcs => gps_log' = gps_log
       /\ ser = "closed" => in_waiting' = in_waiting]_vars

\* C18 (as claimed): the press wait_for_press() returned on never ends the
\* recording it started: when the stop test ends the recording, the button is
\* down by a press that began after the trigger was received.
C18_StartPressIsNotTheStop ==
    [][(pc = "button" /\ recording /\ ~recording') => ~btn.start]_vars

\* C19: from the stop test that ended the recording to the restart, no frame
\* is taken from the queue, no file of the session is created or removed and
\* no line is added to the GPS log: the loop is left at its next test and the
\* finally block touches the handles only.
C19_FrozenAfterStop ==
    [][(~recording /\ pc \in LoopPcs \cup CleanupPcs) =>
        /\ files' = files
        /\ gps_log' = gps_log
        /\ pc' \notin {"frame", "gps", "button"}
        /\ pc # "restart" => (queue' >= queue /\ frame_count' = frame_count /\ ts_str' = ts_str)]_vars

\* C19 witness: the recording was stopped after one frame; another frame has
\* arrived since and is still in the queue when the process restarts
C19_FrameLeftInQueue ==
    /\ pc = "restart"
    /\ ~recording
    /\ frame_count = 1
    /\ queue = 1
    /\ Cardinality(SessionImages) = 1

\* the entries of the disk that are not directories
FilesOnly(fs) == {f \in fs : f.kind \notin {"root", "session", "images"}}
\* the call of get_storage_path() made by this step met no failure: the
\* directory creation (when needed), the probe write and the probe delete all
\* succeeded
HealthyCall ==
    /\ events' = events + 1
    /\ Call("write", PRIMARY_ROOT, TRUE) \in CallsOf(probe_log')
    /\ Call("remove", PRIMARY_ROOT, TRUE) \in CallsOf(probe_log')
    /\ \A c \in CallsOf(probe_log') : c.ok

=============================================================================
